---- MODULE Spec2Model ----
(***************************************************************************)
(* A model of the SQLite service of runar-labs/rust-services               *)
(* (src/src/sqlite.rs): the facade SqliteService with its lifecycle        *)
(* callbacks start and stop, schema initialization, and the two request *)
(* handlers execute_sql and execute_crud, run by concurrent caller tasks   *)
(* against one database file.                                              *)
(*                                                                         *)
(* The embedded SQL engine is the driver: open, execute and query are      *)
(* modelled by what SQLite does for the statements used here (CREATE TABLE *)
(* fails on an existing table, a statement on a missing table fails, a     *)
(* SELECT returns the rows of the table).                                  *)
(***************************************************************************)
EXTENDS Integers, Sequences, FiniteSets, TLC

(***************************************************************************)
(* Bounds of the model.                                                    *)
(***************************************************************************)
\* Number of connections start may open over a run.
MaxStarts == 2
\* Number of rows the users table may hold.
MaxRows == 1

\* Number of with_condition calls made on one Query.
MaxCalls == 3

\* The concurrent caller tasks.
Callers == {1, 2}
Conns == 1..MaxStarts

(***************************************************************************)
(* Value (sqlite.rs 7-15) and the driver's native cells.                   *)
(***************************************************************************)
\* A Value: its variant, and its integer or text payload.  A Real carries
\* its decimal text, a Blob its bytes in hexadecimal, a Boolean 0 or 1.
Value(t, v, s) == [t |-> t, v |-> v, s |-> s]
ValueNull == Value("Null", 0, "")
ValueInteger(n) == Value("Integer", n, "")
ValueText(s) == Value("Text", 0, s)
ValueReal(s) == Value("Real", 0, s)
ValueBlob(s) == Value("Blob", 0, s)
ValueBoolean(b) == Value("Boolean", IF b THEN 1 ELSE 0, "")

Values ==
    {ValueNull, ValueInteger(0), ValueInteger(1), ValueInteger(30),
     ValueReal("1.5"), ValueText(""), ValueText("John Doe"), ValueBlob("CAFE"),
     ValueBoolean(FALSE), ValueBoolean(TRUE)}

\* A cell as the engine stores it: INTEGER, REAL, TEXT, BLOB or NULL.
IntCell(n) == [t |-> "INTEGER", v |-> n, s |-> ""]
TextCell(s) == [t |-> "TEXT", v |-> 0, s |-> s]
NullCell == [t |-> "NULL", v |-> 0, s |-> ""]
RealCell(s) == [t |-> "REAL", v |-> 0, s |-> s]
BlobCell(s) == [t |-> "BLOB", v |-> 0, s |-> s]

\* The cell the engine stores for a Value it is given, as a literal of the
\* statement or as a bound parameter: each variant has its own storage
\* class, except Boolean, which the engine keeps as INTEGER 0 or 1.
NativeCell(value) ==
    CASE value.t = "Null" -> NullCell
      [] value.t = "Integer" -> IntCell(value.v)
      [] value.t = "Real" -> RealCell(value.s)
      [] value.t = "Text" -> TextCell(value.s)
      [] value.t = "Blob" -> BlobCell(value.s)
      [] value.t = "Boolean" -> IntCell(value.v)

\* DataType (sqlite.rs 155-161) of a column declared to hold the Value: it
\* has no Boolean, a Boolean column is declared Integer; a Null fits any.
MatchingDataTypes(value) ==
    CASE value.t = "Null" -> {"Integer", "Text", "Real", "Blob"}
      [] value.t = "Boolean" -> {"Integer"}
      [] OTHER -> {value.t}

(***************************************************************************)
(* Schema, TableDefinition, ForeignKey, IndexDefinition (sqlite.rs         *)
(* 122-202).  A column is its name; a foreign key is (column,              *)
(* foreign_table, foreign_column); an index is (name, columns); the        *)
(* indexes of a table are a list.                                          *)
(***************************************************************************)
TableDefinition(name, columns, fks, indexes) ==
    [name |-> name, columns |-> columns, foreign_keys |-> fks, indexes |-> indexes]

ForeignKey(column, ftable, fcolumn) ==
    [column |-> column, foreign_table |-> ftable, foreign_column |-> fcolumn]

IndexDefinition(name, columns) == [name |-> name, columns |-> columns]

UsersTable ==
    TableDefinition("users", <<"id", "name", "email", "age">>, {},
                    <<IndexDefinition("idx_users_email", <<"email">>)>>)

PostsTable(fks) == TableDefinition("posts", <<"id", "user_id", "author_id">>, fks, <<>>)

\* Schema::new().add_table(..)...: the tables in the order they were added.
SchemaPostsFk == <<UsersTable, PostsTable({ForeignKey("user_id", "users", "id")})>>
SchemaDangling ==
    <<UsersTable, PostsTable({ForeignKey("user_id", "ghost", "id"),
                              ForeignKey("author_id", "users", "nope")})>>
SchemaDuplicate == <<UsersTable, UsersTable>>

Schemas ==
    {SchemaPostsFk, SchemaDangling, SchemaDuplicate}

(***************************************************************************)
(* Requests: SqlQuery (sqlite.rs 35-53) and CrudOperation (84-120).        *)
(***************************************************************************)
\* A raw statement: what its text does, on which table, and the age its
\* text gives the row.
SqlQuery(verb, table, age) ==
    [api |-> "sql", verb |-> verb, table |-> table, field |-> "none", age |-> age]

SqlQueries ==
    {SqlQuery("SELECT", "users", NullCell),
     SqlQuery("INSERT", "users", IntCell(30)),
     SqlQuery("INSERT", "users", NullCell)}

\* A CrudOperation: its variant, its table, and the one field name its
\* data / query / updates map uses.
CrudOperation(variant, table, field, age) ==
    [api |-> "crud", verb |-> variant, table |-> table, field |-> field, age |-> age]

CrudOperations ==
    {CrudOperation("Create", "users", "age", IntCell(30)),
     CrudOperation("Read", "users", "email", NullCell),
     CrudOperation("Update", "users", "age", IntCell(31)),
     CrudOperation("Delete", "users", "email", NullCell),
     CrudOperation("Read", "ghost", "email", NullCell),
     CrudOperation("Create", "users", "bogus", IntCell(30))}

NoRequest == [api |-> "none", verb |-> "none", table |-> "none", field |-> "none",
              age |-> NullCell]

(***************************************************************************)
(* QueryOperator (sqlite.rs 55-66) and Query (68-82).  Query::conditions   *)
(* is a HashMap<String, QueryOperator>: a function from the field names it *)
(* holds to their operators.                                               *)
(***************************************************************************)
QueryOperator(variant, arg) == [variant |-> variant, arg |-> arg]

QueryOperators ==
    {QueryOperator("Equal", ValueInteger(30)),
     QueryOperator("GreaterThan", ValueInteger(18)),
     QueryOperator("Like", ValueText("%@example.com"))}

Fields == {"name", "email", "age"}

\* HashMap::new(): no key.
HashMapNew == [k \in {} |-> QueryOperator("Equal", ValueNull)]

\* An insert that keeps the value a key already has.
HashMapInsertIfAbsent(m, k, v) ==
    [x \in DOMAIN m \cup {k} |-> IF x \in DOMAIN m THEN m[x] ELSE v]

\* HashMap::insert(k, v): the key now maps to v, whatever it mapped to
\* before; the other keys keep their values.
HashMapInsert(m, k, v) ==
    [x \in DOMAIN m \cup {k} |-> IF x = k THEN v ELSE m[x]]

\* Query::new() (75-77).
QueryNew == [conditions |-> HashMapNew]

(***************************************************************************)
(* State.                                                                  *)
(***************************************************************************)
VARIABLES
    query,       \* a Query under construction by a caller (sqlite.rs 68-82)
    calls,       \* the with_condition calls made on it so far, in order
    rt,          \* one Value on its way into a column and back out of it
    schema,      \* config.schema (sqlite.rs 212): fixed at construction
    phase,       \* position of the lifecycle callbacks: Stopped, Starting, Ready, Stopping
    lastStart,   \* how the last start ended: None, Running, Ok, Err, Panic
    initIdx,     \* initialize_schema's position in schema.tables (0: not running)
    ddl,         \* the statements the last initialize_schema has executed, in order
    connection,  \* self.connection: 0 is None, g > 0 is Some(the g-th opened connection)
    opened,      \* how many connections Connection::open has returned
    lockHolder,  \* per connection, the caller holding its lock (0: free)
    poisoned,    \* per connection, whether a holder panicked while holding its lock
    dbTables,    \* the tables of the database file
    dbRows,      \* the rows of table users in the database file
    pc,          \* per caller: idle, queued, waiting, exec, map, done
    req,         \* per caller: the SqlQuery or CrudOperation of its call, once read
    conn,        \* per caller: the connection its running call read from self.connection
    cursor,      \* per caller: the rows its statement returned, not yet mapped
    out,         \* per caller: how its call ended (Ok, DriverError, Unit, Cancelled, or the
                 \* unwrap() that panicked), and the rows it returned
    cancelAt,    \* per caller: where its call was when the caller cancelled it
    acq          \* per caller: how many times its call acquired the lock

lifecycleVars == <<phase, lastStart, initIdx, ddl, connection, opened>>
lockVars == <<lockHolder, poisoned>>
dbVars == <<dbTables, dbRows>>
callVars == <<pc, req, conn, cursor, out, cancelAt, acq>>
dataVars == <<query, calls, rt>>
vars == <<dataVars, schema, lifecycleVars, lockVars, dbVars, callVars>>

Outcome(k, rows) == [k |-> k, rows |-> rows]
NoOutcome == Outcome("None", <<>>)

\* A Value written by one execute_sql and read by another: the Value, the
\* column (0..3) and its declared DataType, how the statement carries the
\* Value (a parameter of query.params, or a literal of query.statement),
\* the cell stored, and what the reading call returned for it.
RoundTrip(stage, value, column, datatype, how, cell, k, back) ==
    [stage |-> stage, value |-> value, column |-> column, datatype |-> datatype,
     how |-> how, cell |-> cell, k |-> k, back |-> back]
NoRoundTrip == RoundTrip("none", ValueNull, 0, "Integer", "none", NullCell, "None", ValueNull)

\* SqliteService::new (sqlite.rs 233-238): connection: None; the database
\* file is empty and no call has been made.
Init ==
    /\ query = QueryNew
    /\ calls = <<>>
    /\ rt = NoRoundTrip
    /\ schema \in Schemas
    /\ phase = "Stopped"
    /\ lastStart = "None"
    /\ initIdx = 0
    /\ ddl = <<>>
    /\ connection = 0
    /\ opened = 0
    /\ lockHolder = [g \in Conns |-> 0]
    /\ poisoned = [g \in Conns |-> FALSE]
    /\ dbTables = {}
    /\ dbRows = <<>>
    /\ pc = [c \in Callers |-> "idle"]
    /\ req = [c \in Callers |-> NoRequest]
    /\ conn = [c \in Callers |-> 0]
    /\ cursor = [c \in Callers |-> <<>>]
    /\ out = [c \in Callers |-> NoOutcome]
    /\ cancelAt = [c \in Callers |-> "none"]
    /\ acq = [c \in Callers |-> 0]

(***************************************************************************)
(* Lifecycle: start (sqlite.rs 240-247), initialize_schema (254-266),      *)
(* stop (249-252).  The host runs one lifecycle callback at a time, to its *)
(* end.  Neither callback looks at what state the service is in: start on  *)
(* a started service opens and initializes again; stop on a service that   *)
(* is not started logs and changes nothing, a stuttering step.             *)
(***************************************************************************)
\* The positions in which no lifecycle callback is running.
Settled == {"Stopped", "Ready"}

\* Connection::open(..).unwrap() fails: start panics (243).
StartOpenPanics ==
    /\ phase \in Settled
    /\ lastStart' = "Panic"
    /\ UNCHANGED <<dataVars, schema, phase, initIdx, ddl, connection, opened, lockVars, dbVars, callVars>>

\* Connection::open succeeds and self.connection = Some(..) (243-244).
StartOpen ==
    /\ phase \in Settled
    /\ opened < MaxStarts
    /\ opened' = opened + 1
    /\ connection' = opened + 1
    /\ phase' = "Starting"
    /\ lastStart' = "Running"
    /\ initIdx' = 1
    /\ ddl' = <<>>
    /\ UNCHANGED <<dataVars, schema, lockVars, dbVars, callVars>>

\* The DDL initialize_schema emits for a table (258-262): CREATE TABLE
\* name (columns), with no IF NOT EXISTS, no foreign keys and no indexes.
CreateTableSql(table) == [verb |-> "CREATE TABLE", ifNotExists |-> FALSE, table |-> table.name]

\* The driver's execute of a CREATE TABLE: an error when the table exists
\* and the statement has no IF NOT EXISTS.
DdlFails(sql, tables) == sql.table \in tables /\ ~sql.ifNotExists

\* One turn of initialize_schema's loop (257-264): conn.execute(sql)?.
InitializeSchemaStep ==
    /\ phase = "Starting"
    /\ initIdx \in 1..Len(schema)
    /\ LET sql == CreateTableSql(schema[initIdx]) IN
         IF DdlFails(sql, dbTables)
         THEN \* the ? returns the error from initialize_schema and from start (245)
              /\ lastStart' = "Err"
              /\ phase' = "Stopped"
              /\ initIdx' = 0
              /\ UNCHANGED <<dbTables, ddl>>
         ELSE /\ dbTables' = dbTables \cup {sql.table}
              /\ ddl' = Append(ddl, sql)
              /\ initIdx' = initIdx + 1
              /\ UNCHANGED <<lastStart, phase>>
    /\ UNCHANGED <<dataVars, schema, connection, opened, lockVars, dbRows, callVars>>

\* initialize_schema returns Ok (265) and start returns Ok (246).
StartReturn ==
    /\ phase = "Starting"
    /\ initIdx = Len(schema) + 1
    /\ lastStart' = "Ok"
    /\ phase' = "Ready"
    /\ initIdx' = 0
    /\ UNCHANGED <<dataVars, schema, ddl, connection, opened, lockVars, dbVars, callVars>>

\* stop is called on a started service (249-250).
StopBegin ==
    /\ phase = "Ready"
    /\ phase' = "Stopping"
    /\ UNCHANGED <<dataVars, schema, lastStart, initIdx, ddl, connection, opened, lockVars, dbVars, callVars>>

\* What stop leaves in self.connection (249-252): stop only logs.
ConnectionAfterStop == connection

\* stop returns Ok (251).
StopReturn ==
    /\ phase = "Stopping"
    /\ phase' = "Stopped"
    /\ connection' = ConnectionAfterStop
    /\ UNCHANGED <<dataVars, schema, lastStart, initIdx, ddl, opened, lockVars, dbVars, callVars>>


(***************************************************************************)
(* The driver: what the engine does with a statement of execute_sql.       *)
(***************************************************************************)
UserRow(id, age) ==
    [id |-> IntCell(id), name |-> TextCell("John Doe"),
     email |-> TextCell("john@example.com"), age |-> age]

\* The statement fails in the engine: its table does not exist.
DriverFails(q, tables) == q.table \notin tables

\* The rows of users after the statement.
RowsAfter(q, rows) ==
    CASE q.verb = "INSERT" -> Append(rows, UserRow(Len(rows) + 1, q.age))
      [] OTHER -> rows

\* The rows the statement returns.
RowsReturned(q, rows) == IF q.verb = "SELECT" THEN rows ELSE <<>>

(***************************************************************************)
(* The row mapping of execute_sql (sqlite.rs 271-278): columns 0..3 are    *)
(* read as i64, String, String, i64, each with unwrap().                   *)
(***************************************************************************)
\* row.get::<i64>(i) is Ok only for an INTEGER cell, row.get::<String>(i)
\* only for a TEXT cell.
GetFails(cell, want) == cell.t # want

RowUnwrapPanics(row) ==
    \/ GetFails(row.id, "INTEGER")
    \/ GetFails(row.name, "TEXT")
    \/ GetFails(row.email, "TEXT")
    \/ GetFails(row.age, "INTEGER")

MapRow(row) ==
    [id |-> ValueInteger(row.id.v), name |-> ValueText(row.name.s),
     email |-> ValueText(row.email.s), age |-> ValueInteger(row.age.v)]

MapRows(rows) == [i \in 1..Len(rows) |-> MapRow(rows[i])]

\* The same closure column by column: the type row.get(i) asks for at
\* column i = 0..3, and the Value it wraps the cell in.
ColumnWant(i) == <<"INTEGER", "TEXT", "TEXT", "INTEGER">>[i + 1]

MapCell(i, cell) ==
    IF ColumnWant(i) = "INTEGER" THEN ValueInteger(cell.v) ELSE ValueText(cell.s)

(***************************************************************************)
(* Caller tasks.  A call is an async fn with no await in its body: its     *)
(* future does nothing until it is first polled, and once polled it runs   *)
(* to its end on the worker, blocking in lock() if it must.                *)
(***************************************************************************)
\* The argument of a call before the handler has read it: only which
\* handler was called is known.
Unread(api) == [NoRequest EXCEPT !.api = api]

\* A caller creates the future of execute_sql(query) or execute_crud(op).
\* The handler reads its argument when it first uses it, and the argument
\* is drawn there.
Call(c, api) ==
    /\ pc[c] = "idle"
    /\ pc' = [pc EXCEPT ![c] = "queued"]
    /\ req' = [req EXCEPT ![c] = Unread(api)]
    /\ UNCHANGED <<dataVars, schema, lifecycleVars, lockVars, dbVars, conn, cursor, out, cancelAt, acq>>

\* A lock wait that the caller could abandon: cancellation honoured up to
\* the moment the lock is acquired.
CancelEffectiveUntilLocked(at) == at \in {"queued", "waiting"}

\* Whether dropping the future of a call at this point ends the call: only
\* a future that is not being polled can be dropped.
CancelEffective(at) == at = "queued"

\* The caller cancels its call.
Cancel(c) ==
    /\ pc[c] \in {"queued", "waiting", "exec"}
    /\ cancelAt[c] = "none"
    /\ cancelAt' = [cancelAt EXCEPT ![c] = pc[c]]
    /\ IF CancelEffective(pc[c])
       THEN /\ pc' = [pc EXCEPT ![c] = "done"]
            /\ out' = [out EXCEPT ![c] = Outcome("Cancelled", <<>>)]
       ELSE UNCHANGED <<pc, out>>
    /\ UNCHANGED <<dataVars, schema, lifecycleVars, lockVars, dbVars, req, conn, cursor, acq>>

\* The SqlQuery execute_crud compiles from the operation and hands to the
\* driver (sqlite.rs 287-288): none, the body is empty.
NoSql == [text |-> "none", columns |-> <<>>, params |-> <<>>]
CompiledSql(op) == NoSql

\* execute_crud(op) (sqlite.rs 287-288): the body is empty.
ExecuteCrud(c, op) ==
    /\ pc[c] = "queued"
    /\ req[c].api = "crud"
    /\ req' = [req EXCEPT ![c] = op]
    /\ pc' = [pc EXCEPT ![c] = "done"]
    /\ out' = [out EXCEPT ![c] = Outcome("Unit", <<>>)]
    /\ UNCHANGED <<dataVars, schema, lifecycleVars, lockVars, dbVars, conn, cursor, cancelAt, acq>>

\* execute_sql, self.connection.as_ref().unwrap() (269): a panic on None.
SqlBegin(c) ==
    /\ pc[c] = "queued"
    /\ req[c].api = "sql"
    /\ IF connection = 0
       THEN /\ pc' = [pc EXCEPT ![c] = "done"]
            /\ out' = [out EXCEPT ![c] = Outcome("PanicNoConnection", <<>>)]
            /\ UNCHANGED conn
       ELSE /\ pc' = [pc EXCEPT ![c] = "waiting"]
            /\ conn' = [conn EXCEPT ![c] = connection]
            /\ UNCHANGED out
    /\ UNCHANGED <<dataVars, schema, lifecycleVars, lockVars, dbVars, req, cursor, cancelAt, acq>>

\* A lock() that does not wait for the holder to drop its guard.
LockAlwaysFree(g) == TRUE

\* lock() returns only when no other call holds the connection's lock.
LockFree(g) == lockHolder[g] = 0

\* execute_sql, connection.lock().unwrap() (270): the call blocks until the
\* lock is free; on a poisoned lock unwrap() panics and the guard is dropped.
SqlLock(c) ==
    /\ pc[c] = "waiting"
    /\ LockFree(conn[c])
    /\ acq' = [acq EXCEPT ![c] = acq[c] + 1]
    /\ IF poisoned[conn[c]]
       THEN /\ pc' = [pc EXCEPT ![c] = "done"]
            /\ out' = [out EXCEPT ![c] = Outcome("PanicPoisoned", <<>>)]
            /\ conn' = [conn EXCEPT ![c] = 0]
            /\ UNCHANGED lockHolder
       ELSE /\ pc' = [pc EXCEPT ![c] = "exec"]
            /\ lockHolder' = [lockHolder EXCEPT ![conn[c]] = c]
            /\ UNCHANGED <<out, conn>>
    /\ UNCHANGED <<dataVars, schema, lifecycleVars, poisoned, dbVars, req, cursor, cancelAt>>

\* The holder of the lock once the call has run the statement and goes on
\* to map the rows: the guard lives to the end of execute_sql (270-284).
HolderWhileMapping(c) == c

\* execute_sql, conn.query_map(query.statement, ..)? (271, 278): the
\* statement runs; an error returns from the call, which drops the guard.
SqlQueryMap(c, q) ==
    /\ pc[c] = "exec"
    /\ q.verb = "INSERT" => Len(dbRows) < MaxRows
    /\ req' = [req EXCEPT ![c] = q]
    /\ IF DriverFails(q, dbTables)
       THEN /\ pc' = [pc EXCEPT ![c] = "done"]
            /\ out' = [out EXCEPT ![c] = Outcome("DriverError", <<>>)]
            /\ lockHolder' = [lockHolder EXCEPT ![conn[c]] = 0]
            /\ conn' = [conn EXCEPT ![c] = 0]
            /\ UNCHANGED <<dbRows, cursor>>
       ELSE /\ pc' = [pc EXCEPT ![c] = "map"]
            /\ dbRows' = RowsAfter(q, dbRows)
            /\ cursor' = [cursor EXCEPT ![c] = RowsReturned(q, dbRows)]
            /\ lockHolder' = [lockHolder EXCEPT ![conn[c]] = HolderWhileMapping(c)]
            /\ UNCHANGED <<out, conn>>
    /\ UNCHANGED <<dataVars, schema, lifecycleVars, poisoned, dbTables, cancelAt, acq>>

\* execute_sql, the row closure and the loop over rows (272-283): a cell
\* that get() cannot convert panics in unwrap() with the guard held, which
\* poisons the lock; otherwise Ok(result).  Either way the guard is dropped.
SqlMapRows(c) ==
    /\ pc[c] = "map"
    /\ pc' = [pc EXCEPT ![c] = "done"]
    /\ lockHolder' = [lockHolder EXCEPT ![conn[c]] = 0]
    /\ cursor' = [cursor EXCEPT ![c] = <<>>]
    /\ conn' = [conn EXCEPT ![c] = 0]
    /\ IF \E i \in 1..Len(cursor[c]) : RowUnwrapPanics(cursor[c][i])
       THEN /\ out' = [out EXCEPT ![c] = Outcome("PanicRow", <<>>)]
            /\ poisoned' = [poisoned EXCEPT ![conn[c]] = TRUE]
       ELSE /\ out' = [out EXCEPT ![c] = Outcome("Ok", MapRows(cursor[c]))]
            /\ UNCHANGED poisoned
    /\ UNCHANGED <<dataVars, schema, lifecycleVars, dbVars, req, cancelAt, acq>>

\* The caller has the result of its call and is free to call again.
Return(c) ==
    /\ pc[c] = "done"
    /\ pc' = [pc EXCEPT ![c] = "idle"]
    /\ req' = [req EXCEPT ![c] = NoRequest]
    /\ out' = [out EXCEPT ![c] = NoOutcome]
    /\ cancelAt' = [cancelAt EXCEPT ![c] = "none"]
    /\ acq' = [acq EXCEPT ![c] = 0]
    /\ UNCHANGED <<dataVars, schema, lifecycleVars, lockVars, dbVars, conn, cursor>>

Next ==
    \/ StartOpenPanics
    \/ StartOpen
    \/ InitializeSchemaStep
    \/ StartReturn
    \/ StopBegin
    \/ StopReturn
    \/ \E c \in Callers : \E api \in {"sql", "crud"} : Call(c, api)
    \/ \E c \in Callers : Cancel(c)
    \/ \E c \in Callers : \E op \in CrudOperations : ExecuteCrud(c, op)
    \/ \E c \in Callers : SqlBegin(c)
    \/ \E c \in Callers : SqlLock(c)
    \/ \E c \in Callers : \E q \in SqlQueries : SqlQueryMap(c, q)
    \/ \E c \in Callers : SqlMapRows(c)
    \/ \E c \in Callers : Return(c)

Spec == Init /\ [][Next]_vars

(***************************************************************************)
(* The Query builder on its own: a caller builds one Query from            *)
(* Query::new() by a chain of with_condition calls.                        *)
(***************************************************************************)
\* Query::with_condition(field, op) (78-81): conditions.insert(field, op).
WithCondition(field, op) ==
    /\ Len(calls) < MaxCalls
    /\ query' = [query EXCEPT !.conditions = HashMapInsert(query.conditions, field, op)]
    /\ calls' = Append(calls, [field |-> field, op |-> op])
    /\ UNCHANGED <<rt, schema, lifecycleVars, lockVars, dbVars, callVars>>

QueryNext == \E field \in Fields : \E op \in QueryOperators : WithCondition(field, op)

QuerySpec == Init /\ [][QueryNext]_vars

(***************************************************************************)
(* One Value through execute_sql and back: a caller writes it into a       *)
(* column with one statement and reads the column with another.            *)
(***************************************************************************)
\* The caller builds the writing SqlQuery (sqlite.rs 42-52): the Value is
\* a parameter (with_params) or a literal in the statement text.
RoundTripBuild(value, column, datatype, how) ==
    /\ rt.stage = "none"
    /\ datatype \in MatchingDataTypes(value)
    /\ rt' = RoundTrip("built", value, column, datatype, how, NullCell, "None", ValueNull)
    /\ UNCHANGED <<query, calls, schema, lifecycleVars, lockVars, dbVars, callVars>>

\* What the driver does with a statement whose parameter is not bound: the
\* engine's rule is that an unbound parameter is NULL, the driver's check
\* of the parameter count refuses the statement.  Either may be built.
UnboundOutcomes == {"NULL", "DriverError"}

\* execute_sql runs the writing statement (271): query.statement goes to
\* the driver, query.params does not.
RoundTripWrite(unbound) ==
    /\ rt.stage = "built"
    /\ IF rt.how = "literal"
       THEN rt' = [rt EXCEPT !.stage = "stored", !.cell = NativeCell(rt.value)]
       ELSE IF unbound = "NULL"
            THEN rt' = [rt EXCEPT !.stage = "stored", !.cell = NullCell]
            ELSE rt' = [rt EXCEPT !.stage = "done", !.k = "DriverError"]
    /\ UNCHANGED <<query, calls, schema, lifecycleVars, lockVars, dbVars, callVars>>

\* execute_sql runs the reading statement and maps the row (271-278):
\* row.get(column).unwrap() wrapped in the Value variant of that position.
RoundTripRead ==
    /\ rt.stage = "stored"
    /\ IF GetFails(rt.cell, ColumnWant(rt.column))
       THEN rt' = [rt EXCEPT !.stage = "done", !.k = "PanicRow"]
       ELSE rt' = [rt EXCEPT !.stage = "done", !.k = "Ok",
                             !.back = MapCell(rt.column, rt.cell)]
    /\ UNCHANGED <<query, calls, schema, lifecycleVars, lockVars, dbVars, callVars>>

RoundTripNext ==
    \/ \E value \in Values : \E column \in 0..3 :
          \E datatype \in {"Integer", "Text", "Real", "Blob"} :
             \E how \in {"param", "literal"} : RoundTripBuild(value, column, datatype, how)
    \/ \E unbound \in UnboundOutcomes : RoundTripWrite(unbound)
    \/ RoundTripRead

RoundTripSpec == Init /\ [][RoundTripNext]_vars


(***************************************************************************)
(* Properties.  First their terms: what the Schema's data model calls     *)
(* well-formed, and what a call has done.                                  *)
(***************************************************************************)
SeqRange(s) == {s[i] : i \in 1..Len(s)}

TableNames(sch) == {sch[i].name : i \in 1..Len(sch)}

\* The TableDefinitions of the schema with the given name.
TablesNamed(sch, name) == {sch[i] : i \in {j \in 1..Len(sch) : sch[j].name = name}}

\* A foreign key whose foreign_table is no table of the schema, or whose
\* foreign_column is no column of that table.
Dangling(sch, fk) ==
    \/ fk.foreign_table \notin TableNames(sch)
    \/ \E t \in TablesNamed(sch, fk.foreign_table) :
          fk.foreign_column \notin SeqRange(t.columns)

HasDanglingForeignKey(sch) ==
    \E i \in 1..Len(sch) : \E fk \in sch[i].foreign_keys : Dangling(sch, fk)

UniqueTableNames(sch) ==
    \A i, j \in 1..Len(sch) : sch[i].name = sch[j].name => i = j

\* Every identifier of the operation names a table of the schema and a
\* column of that table.
ValidIdentifiers(sch, op) ==
    /\ op.table \in TableNames(sch)
    /\ \A t \in TablesNamed(sch, op.table) : op.field \in SeqRange(t.columns)

\* The call of c has handed its statement to the driver.
StatementRan(c) == pc[c] = "map" \/ out[c].k \in {"Ok", "DriverError", "PanicRow"}

\* The call of c begins to run in this step (its future is polled).
BeginsToRun(c) == pc[c] = "queued" /\ pc'[c] # "queued" /\ cancelAt'[c] = "none"

\* C1: in every facade state other than Ready, a call of execute_sql or
\* execute_crud returns the NotReady error as a value at once: no panic,
\* no use of the connection or its lock, no driver call.
C1_NotReadyOutsideReady ==
    [][\A c \in Callers :
          (BeginsToRun(c) /\ phase # "Ready") =>
              /\ pc'[c] = "done"
              /\ out'[c].k = "NotReady"
              /\ acq'[c] = 0
              /\ dbRows' = dbRows]_vars

\* C2: start never panics; when it reports an error the facade is back in
\* Stopped with no connection held; Ready is reached only by a start whose
\* open and schema initialization both succeeded.
C2_StartFailsCleanly ==
    /\ lastStart # "Panic"
    /\ lastStart = "Err" => (phase = "Stopped" /\ connection = 0)
    /\ phase = "Ready" => (lastStart = "Ok" /\ TableNames(schema) \subseteq dbTables)

\* C3: once stop has completed from Ready the connection handle is
\* released, and every call that begins to run before the next successful
\* start fails with NotReady.
C3_StopReleasesConnection ==
    /\ [](phase = "Stopped" /\ lastStart = "Ok" => connection = 0)
    /\ [][\A c \in Callers :
             (BeginsToRun(c) /\ phase = "Stopped" /\ lastStart = "Ok") =>
                 (pc'[c] = "done" /\ out'[c].k = "NotReady")]_vars

\* C4: on each connection at most one call at a time is executing its
\* statement or mapping its rows; such a call holds the connection's lock
\* from the start of its statement until its row mapping is finished, and
\* has acquired it exactly once; no call acquires the lock a second time
\* and no finished call leaves the lock held.
C4_MutualExclusion ==
    /\ \A c \in Callers :
          pc[c] \in {"exec", "map"} =>
              (conn[c] \in Conns /\ lockHolder[conn[c]] = c /\ acq[c] = 1)
    /\ \A c1, c2 \in Callers :
          (/\ pc[c1] \in {"exec", "map"}
           /\ pc[c2] \in {"exec", "map"}
           /\ conn[c1] = conn[c2]) => c1 = c2
    /\ \A c \in Callers : acq[c] <= 1
    /\ \A c \in Callers : (pc[c] = "done" /\ StatementRan(c)) => acq[c] = 1
    /\ \A g \in Conns :
          lockHolder[g] # 0 =>
              (pc[lockHolder[g]] \in {"exec", "map"} /\ conn[lockHolder[g]] = g)

\* C4 witness: one call is mapping its rows under the lock while another
\* call on the same connection is blocked in lock().
C4_Witness ==
    \E c1, c2 \in Callers :
        /\ pc[c1] = "map"
        /\ lockHolder[conn[c1]] = c1
        /\ pc[c2] = "waiting"
        /\ conn[c2] = conn[c1]

\* C5: an execute_crud call in a Ready facade whose operation names a table
\* or a field that is not in the Schema fails with InvalidIdentifier, and
\* the database is unchanged.
C5_InvalidIdentifierRejected ==
    [][\A c \in Callers :
          (/\ BeginsToRun(c)
           /\ phase = "Ready"
           /\ req'[c].api = "crud"
           /\ ~ValidIdentifiers(schema, req'[c])) =>
              (pc'[c] = "done" /\ out'[c].k = "InvalidIdentifier" /\ dbRows' = dbRows)]_vars

\* C6: for a well-formed Schema, schema initialization never reports an
\* error, on the first run against the empty database or on a later run
\* against the database an earlier run initialized, and leaves the tables
\* of the Schema.
C6_InitializationIdempotent ==
    (UniqueTableNames(schema) /\ ~HasDanglingForeignKey(schema)) =>
        /\ lastStart # "Err"
        /\ lastStart = "Ok" => dbTables = TableNames(schema)

\* The columns of a statement follow the declaration order of the table.
InDeclarationOrder(cols, tcols) ==
    \A i, j \in 1..Len(cols) :
        i < j => \E a, b \in 1..Len(tcols) : a < b /\ tcols[a] = cols[i] /\ tcols[b] = cols[j]

\* C7: for an operation with valid identifiers, execute_crud in a Ready
\* facade compiles an SqlQuery, the same for the same operation, whose
\* columns are in the declaration order of the operation's table.
C7_DeterministicCompile ==
    [][\A c \in Callers :
          (/\ BeginsToRun(c)
           /\ phase = "Ready"
           /\ req'[c].api = "crud"
           /\ ValidIdentifiers(schema, req'[c])) =>
              /\ CompiledSql(req'[c]) # NoSql
              /\ \A t \in TablesNamed(schema, req'[c].table) :
                    InDeclarationOrder(CompiledSql(req'[c]).columns, t.columns)
              /\ \A d \in Callers :
                    req'[d] = req'[c] => CompiledSql(req'[d]) = CompiledSql(req'[c])]_vars

\* C8: in a Ready facade a Create adds its row, an Update changes the field
\* on the matching rows, a Delete removes them, and a Read returns exactly
\* the matching rows with their current values (none is an empty sequence
\* without error).
C8_ReadReflectsWrites ==
    [][\A c \in Callers :
          (/\ BeginsToRun(c)
           /\ phase = "Ready"
           /\ req'[c].api = "crud"
           /\ ValidIdentifiers(schema, req'[c])) =>
              /\ pc'[c] = "done"
              /\ out'[c].k = "Ok"
              /\ req'[c].verb = "Create" =>
                    dbRows' = Append(dbRows, UserRow(Len(dbRows) + 1, req'[c].age))
              /\ req'[c].verb = "Update" =>
                    dbRows' = [i \in 1..Len(dbRows) |-> [dbRows[i] EXCEPT !.age = req'[c].age]]
              /\ req'[c].verb = "Delete" => dbRows' = <<>>
              /\ req'[c].verb = "Read" =>
                    (out'[c].rows = MapRows(dbRows) /\ dbRows' = dbRows)]_vars

\* C9: a Schema with a foreign key whose foreign_table or foreign_column
\* does not exist fails validation: start never reports success for it and
\* the facade never reaches Ready.
C9_DanglingForeignKeyRejected ==
    HasDanglingForeignKey(schema) => (phase # "Ready" /\ lastStart # "Ok")

LastCall(f) ==
    CHOOSE i \in 1..Len(calls) :
        /\ calls[i].field = f
        /\ \A j \in 1..Len(calls) : calls[j].field = f => j <= i

\* C15: after any chain of with_condition calls from Query::new, the Query
\* holds an operator for exactly the field names the calls used, one each,
\* namely the operator of the last call for that field; and a call for one
\* field leaves the operators of all other fields as they were.
C15_LastConditionWins ==
    /\ [](/\ DOMAIN query.conditions = {calls[i].field : i \in 1..Len(calls)}
          /\ \A f \in DOMAIN query.conditions :
                query.conditions[f] = calls[LastCall(f)].op)
    /\ [][calls' # calls =>
             \A f \in DOMAIN query.conditions :
                 f # calls'[Len(calls')].field =>
                     (f \in DOMAIN query'.conditions
                      /\ query'.conditions[f] = query.conditions[f])]_vars

\* C15 witness: a field was given one operator, then another field an
\* operator, then the first field a different operator.
C15_Witness ==
    /\ Len(calls) = 3
    /\ calls[1].field = calls[3].field
    /\ calls[1].op # calls[3].op
    /\ calls[2].field # calls[1].field
    /\ Cardinality(DOMAIN query.conditions) = 2
    /\ query.conditions[calls[1].field] = calls[3].op

\* C11: a Value bound as a parameter into a column of the matching
\* DataType and read back through the row mapping comes back equal, same
\* variant and payload; a Null comes back as Value::Null whatever the
\* column's DataType.
C11_RoundTrip ==
    (rt.stage = "done" /\ rt.how = "param") => (rt.k = "Ok" /\ rt.back = rt.value)

\* The lifecycle steps of the facade: Stopped, Starting, Ready, Stopping,
\* Stopped in this order, and Starting back to Stopped on a failed start.
LifecycleSteps ==
    {<<"Stopped", "Starting">>, <<"Starting", "Ready">>, <<"Ready", "Stopping">>,
     <<"Stopping", "Stopped">>, <<"Starting", "Stopped">>}

\* C12: over any sequence of start, stop, execute_sql and execute_crud
\* calls the lifecycle state changes only along the lifecycle steps; a
\* connection is opened only by a start from Stopped; and the connection
\* is set only when none is held, so a held connection is never replaced.
C12_LifecycleOrder ==
    [][/\ phase' # phase => <<phase, phase'>> \in LifecycleSteps
       /\ opened' # opened => (phase = "Stopped" /\ phase' = "Starting")
       /\ connection' # connection => (connection = 0 \/ connection' = 0)]_vars

\* A DDL statement as the claim names it: what it creates.
Ddl(verb, name) == <<verb, name>>

\* The statements of one table: its CREATE TABLE, then one CREATE INDEX
\* for each of its indexes, in their order.
TableDdl(table) ==
    <<Ddl("CREATE TABLE", table.name)>> \o
        [i \in 1..Len(table.indexes) |-> Ddl("CREATE INDEX", table.indexes[i].name)]

\* The statements of a Schema: those of its tables, in declaration order.
RECURSIVE SchemaDdl(_)
SchemaDdl(sch) ==
    IF sch = <<>> THEN <<>> ELSE TableDdl(Head(sch)) \o SchemaDdl(Tail(sch))

\* The statements the last initialize_schema has executed.
Executed == [i \in 1..Len(ddl) |-> Ddl(ddl[i].verb, ddl[i].table)]

IsPrefix(s, t) == Len(s) <= Len(t) /\ \A i \in 1..Len(s) : s[i] = t[i]

\* C13: schema initialization executes its statements in the order of the
\* Schema, each table's CREATE TABLE followed by that table's indexes, and
\* all of them when it succeeds; when a statement fails the error is
\* returned and the facade does not become Ready, no later statement is
\* executed, and what the earlier statements created remains.
C13_InitializationOrder ==
    /\ [](/\ IsPrefix(Executed, SchemaDdl(schema))
          /\ lastStart = "Ok" => Executed = SchemaDdl(schema)
          /\ lastStart = "Err" => phase # "Ready")
    /\ [][/\ (lastStart = "Running" /\ lastStart' = "Err") =>
                (ddl' = ddl /\ dbTables' = dbTables /\ phase' = "Stopped")
          /\ (lastStart = "Err" /\ lastStart' = "Err") =>
                (ddl' = ddl /\ dbTables' = dbTables)]_vars

\* The call of c, holding the lock, can take its next step.
HolderCanStep(c) ==
    \/ ENABLED (\E q \in SqlQueries : SqlQueryMap(c, q))
    \/ ENABLED SqlMapRows(c)

\* C14: a call that acquired the lock can always go on to the end of its
\* statement and row mapping, and has released the lock when it ends,
\* whether it completed or failed; a failed statement or row conversion
\* never leaves the lock unusable, so a call waiting for the lock that
\* gets past lock() has acquired it.
C14_LockReleasedAndUsable ==
    /\ [](/\ \A c \in Callers : pc[c] \in {"exec", "map"} => HolderCanStep(c)
          /\ \A c \in Callers : pc[c] \in {"done", "idle"} =>
                 \A g \in Conns : lockHolder[g] # c
          /\ \A g \in Conns : ~poisoned[g])
    /\ [][\A c \in Callers :
             (pc[c] = "waiting" /\ pc'[c] # "waiting") =>
                 (pc'[c] = "exec" /\ lockHolder'[conn[c]] = c)]_vars

====
